---- MODULE Spec2Model ----
(***************************************************************************)
(* emqu: chunk, embed and query textual files (src/src/main.rs).           *)
(*                                                                         *)
(* The process runs one command per invocation; what outlives an           *)
(* invocation is the file system: the embedding store file written by      *)
(* `embed` and read by `query`, and the output folder filled by `chunk`.   *)
(*                                                                         *)
(* Text is a sequence of one-character strings.  Vectors are sequences of  *)
(* small integers; a cosine score dot/(|a|*|b|) is kept exactly as the     *)
(* pair (dot, |a|^2*|b|^2).  All squared norms of the vectors used here    *)
(* are in 0..3, where equal real scores are equal f32 values and distinct  *)
(* real scores stay distinct and ordered after f32 rounding, so the exact  *)
(* order is the order the f32 comparison gives.                            *)
(***************************************************************************)
EXTENDS Integers, Sequences, FiniteSets, TLC

VARIABLES
    store,          \* the embedding store file (embed's output, query's input)
    last,           \* the most recent embed/query invocation: arguments, faults, outcome
    files_to_chunk, \* chunk: the glob result, indices into Corpus
    next_entry,     \* chunk: position of the `for entry in files_to_chunk` loop
    chunk_state,    \* chunk: "idle", "loop", "ok" or "failed"
    doc,            \* chunk: content, chunks and line_counts of the current entry
    outdir,         \* chunk: the output folder, path -> the chunk file it holds
    written         \* chunk: the paths passed to fs::write so far, in order

vars == <<store, last, files_to_chunk, next_entry, chunk_state, doc, outdir, written>>

(***************************************************************************)
(* Bounds                                                                  *)
(***************************************************************************)
\* most records in a store file given to query
MaxRecs == 3
\* most files one glob pattern matches
MaxFiles == 2
\* most characters in a document given to chunk
MaxText == 5

Min(a, b) == IF a < b THEN a ELSE b

\* every sequence over S of length at most n
SeqsUpTo(S, n) == UNION {[1..m -> S] : m \in 0..n}

RECURSIVE SumTo(_, _)
SumTo(f, n) == IF n = 0 THEN 0 ELSE f[n] + SumTo(f, n - 1)

(***************************************************************************)
(* Text                                                                    *)
(***************************************************************************)
NL == "\n"
IsWhite(c) == c \in {NL, " "}

RECURSIVE TrimStart(_)
TrimStart(s) ==
    IF s # <<>> /\ IsWhite(Head(s)) THEN TrimStart(Tail(s)) ELSE s

RECURSIVE TrimEnd(_)
TrimEnd(s) ==
    IF s # <<>> /\ IsWhite(s[Len(s)]) THEN TrimEnd(SubSeq(s, 1, Len(s) - 1)) ELSE s

\* str::trim
Trim(s) == TrimEnd(TrimStart(s))

\* str::lines().count(): lines end at "\n"; a final line needs no terminator, and
\* an empty final line is not a line
LinesCount(s) ==
    Cardinality({i \in 1..Len(s) : s[i] = NL})
        + (IF s # <<>> /\ s[Len(s)] # NL THEN 1 ELSE 0)

(***************************************************************************)
(* The corpus: the files a glob pattern can match, in glob (alphabetical)  *)
(* order.                                                                  *)
(***************************************************************************)
Corpus == <<
    [dir |-> "d1", name |-> <<"a">>],
    [dir |-> "d1", name |-> <<"a", ".", "t", "x", "t">>],
    [dir |-> "d1", name |-> <<"b", ".", "m", "d">>],
    [dir |-> "d2", name |-> <<"a", ".", "t", "x", "t">>] >>

\* position of the last "." of a name at which Path splits stem and extension;
\* 0 when there is none (a leading "." starts a hidden file, not an extension)
LastDot(name) ==
    LET dots == {i \in 2..Len(name) : name[i] = "."}
    IN  IF dots = {} THEN 0 ELSE CHOOSE i \in dots : \A j \in dots : j <= i

\* path.file_stem().unwrap_or("unknown")
file_stem(p) ==
    IF LastDot(p.name) = 0 THEN p.name ELSE SubSeq(p.name, 1, LastDot(p.name) - 1)

\* path.extension().unwrap_or("txt")
extension(p) ==
    IF LastDot(p.name) = 0 THEN <<"t", "x", "t">>
    ELSE SubSeq(p.name, LastDot(p.name) + 1, Len(p.name))

\* path.file_name()
file_name(p) == p.name

\* glob(&pattern): the matched files in order, a strictly increasing sequence of
\* Corpus positions
IsIncreasing(s) == \A i \in 1..Len(s) - 1 : s[i] < s[i + 1]
GlobResults == {s \in SeqsUpTo(1..Len(Corpus), MaxFiles) : IsIncreasing(s)}

(***************************************************************************)
(* Similarity ranker                                                       *)
(***************************************************************************)
\* a.iter().zip(b).map(|(x, y)| x * y).sum(): zip stops at the shorter vector
dot_product(a, b) ==
    SumTo([i \in 1..Min(Len(a), Len(b)) |-> a[i] * b[i]], Min(Len(a), Len(b)))

\* the square of a.iter().map(|x| x * x).sum().sqrt()
norm_sq(a) == SumTo([i \in 1..Len(a) |-> a[i] * a[i]], Len(a))

\* dot_product / (norm_a * norm_b), kept as dot / sqrt(den2)
cosine_similarity(a, b) ==
    [dot |-> dot_product(a, b), den2 |-> norm_sq(a) * norm_sq(b)]

\* a zero norm makes the dot product 0 too: the quotient is 0.0 / 0.0
IsNaN(s) == s.den2 = 0

\* sign(dot) * dot^2: the square of the score times den2, sign kept
SignedSq(s) == IF s.dot < 0 THEN 0 - s.dot * s.dot ELSE s.dot * s.dot

\* f32::partial_cmp: None when either side is NaN
partial_cmp(x, y) ==
    IF IsNaN(x) \/ IsNaN(y) THEN "None"
    ELSE IF SignedSq(x) * y.den2 < SignedSq(y) * x.den2 THEN "Less"
    ELSE IF SignedSq(x) * y.den2 > SignedSq(y) * x.den2 THEN "Greater"
    ELSE "Equal"

\* faulty variant: the comparison the wrong way round, a.0.partial_cmp(&b.0)
compare_ascending(a, b) == partial_cmp(a[1], b[1])

\* faulty variant: an incomparable pair taken as equal, unwrap_or(Ordering::Equal)
compare_total(a, b) ==
    IF partial_cmp(b[1], a[1]) = "None" THEN "Equal" ELSE partial_cmp(b[1], a[1])

\* the closure of results.sort_by: |a, b| b.0.partial_cmp(&a.0), before unwrap()
compare(a, b) == partial_cmp(b[1], a[1])

\* slice::sort_by on a short slice: a stable insertion sort.  x, the element
\* after the sorted prefix s, moves left past s[j] while compare(x, s[j]) is
\* Less; unwrap() panics on the first None.
RECURSIVE insert_tail(_, _, _)
insert_tail(s, x, j) ==
    IF j = 0 THEN [panic |-> FALSE, v |-> <<x>> \o s]
    ELSE IF compare(x, s[j]) = "None" THEN [panic |-> TRUE, v |-> <<>>]
    ELSE IF compare(x, s[j]) = "Less" THEN insert_tail(s, x, j - 1)
    ELSE [panic |-> FALSE, v |-> SubSeq(s, 1, j) \o <<x>> \o SubSeq(s, j + 1, Len(s))]

RECURSIVE sort_from(_, _, _)
sort_from(v, sorted, i) ==
    IF i > Len(v) THEN [panic |-> FALSE, v |-> sorted]
    ELSE LET r == insert_tail(sorted, v[i], Len(sorted))
         IN  IF r.panic THEN r ELSE sort_from(v, r.v, i + 1)

sort_by(v) ==
    IF Len(v) < 2 THEN [panic |-> FALSE, v |-> v]
    ELSE sort_from(v, <<v[1]>>, 2)

\* stored_embeddings.into_iter().map(|(doc, embedding)| (score, doc)).collect()
scored(query_embedding, stored_embeddings) ==
    [i \in 1..Len(stored_embeddings) |->
        <<cosine_similarity(query_embedding, stored_embeddings[i][2]),
          stored_embeddings[i][1]>>]

\* results.into_iter().take(top_k).collect()
take(v, top_k) == SubSeq(v, 1, Min(top_k, Len(v)))

\* faulty variant: the best result read as results[0] whether or not there is one
rank_outcome_first(results) ==
    IF results = <<>> \/ sort_by(results).panic THEN "panic" ELSE "ok"

\* whether the ranking runs to its end: sort_by returns, or unwinds from unwrap()
rank_outcome(results) == IF sort_by(results).panic THEN "panic" ELSE "ok"

(***************************************************************************)
(* Labels and the store file                                               *)
(***************************************************************************)
\* format!("From: {base_name:?}\n{content}")
labeled(base_name, content) ==
    <<"From: ", "\"">> \o base_name \o <<"\"", NL>> \o content

\* the vectors the embedding model returns (all of one dimension)
ModelVecs == {<<1, 0>>, <<0, 0>>}

\* the content of a file read by embed
EmbedTexts == {<<"x", NL>>}

NoFile == [state |-> "absent", recs |-> <<>>]
Malformed == [state |-> "malformed", recs |-> <<>>]
Json(recs) == [state |-> "json", recs |-> recs]

\* the vectors a store file handed to query can hold: the model's, and vectors
\* of another dimension
StoredVecs == ModelVecs \cup {<<1, 1>>, <<-1, 0>>, <<1>>, <<0, 1, 1>>}
StoredDocs == {labeled(<<"a">>, <<"x", NL>>), labeled(<<"b">>, <<"x", NL>>)}
InputFiles ==
    {NoFile, Malformed} \cup {Json(r) : r \in SeqsUpTo(StoredDocs \X StoredVecs, MaxRecs)}

TopKs == 0..(MaxRecs + 1)

(***************************************************************************)
(* Command::Query                                                          *)
(***************************************************************************)
Query(query_embedding, top_k, fault) ==
    LET results == scored(query_embedding, store.recs)
        outcome ==
            IF store.state = "absent" THEN "IOError"
            ELSE IF store.state = "malformed" THEN "FormatError"
            ELSE IF fault = "embed" THEN "EmbeddingError"
            ELSE rank_outcome(results)
        top_results == IF outcome = "ok" THEN take(sort_by(results).v, top_k) ELSE <<>>
    IN  /\ last' = [cmd |-> "query",
                    input |-> store,
                    query_embedding |-> query_embedding,
                    top_k |-> top_k,
                    fault |-> fault,
                    outcome |-> outcome,
                    top_results |-> top_results,
                    printed |-> [i \in 1..Len(top_results) |-> Trim(top_results[i][2])]]
        /\ UNCHANGED <<store, files_to_chunk, next_entry, chunk_state, doc, outdir, written>>

\* one query invocation on the store file as it is
QueryCmd ==
    \E q \in ModelVecs, k \in TopKs, fault \in {"none", "embed"} : Query(q, k, fault)

\* the single query invocation of a process started on any input file
QueryOnce == last.cmd = "none" /\ QueryCmd

(***************************************************************************)
(* Command::Embed                                                          *)
(***************************************************************************)
\* where the `for entry in embed_files` loop can stop: nowhere, or at entry `at`
\* on `entry?` (GlobError) or on `fs::read_to_string(&path)?` (IOError)
ReadFails(n) ==
    {[at |-> 0, kind |-> "none"]}
        \cup {[at |-> i, kind |-> k] : i \in 1..n, k \in {"GlobError", "IOError"}}

\* how the invocation ends: the first `?` that fails, in program order
embed_outcome(fail, fault) ==
    IF fail.at > 0 THEN fail.kind
    ELSE IF fault = "embed" THEN "EmbeddingError"
    ELSE IF fault \in {"create", "write"} THEN "IOError"
    ELSE "ok"

\* faulty variant: the destination created before the files are read
store_created_first(old, fail, fault, output_data) ==
    IF fault = "create" THEN old
    ELSE IF fail.at > 0 \/ fault \in {"embed", "write"} THEN Malformed
    ELSE Json(output_data)

\* faulty variant: the destination opened for appending
store_appended(old, fail, fault, output_data) ==
    IF fail.at > 0 \/ fault \in {"embed", "create"} THEN old
    ELSE IF fault = "write" THEN Malformed
    ELSE Json(old.recs \o output_data)

\* the destination after the invocation.  fs::File::create(output) runs after the
\* reads and the embedding; it truncates, and to_writer then writes output_data whole.
store_after_embed(old, fail, fault, output_data) ==
    IF fail.at > 0 \/ fault \in {"embed", "create"} THEN old
    ELSE IF fault = "write" THEN Malformed
    ELSE Json(output_data)

Embed ==
    \E matched \in GlobResults :
    \E fail \in ReadFails(Len(matched)) :
    \E fault \in (IF fail.at > 0 THEN {"none"} ELSE {"none", "embed", "create", "write"}) :
        LET nread == IF fail.at > 0 THEN fail.at - 1 ELSE Len(matched)
            \* model.embed is reached when every read succeeded, and returns one
            \* vector per document unless it fails
            nembedded == IF fail.at > 0 \/ fault = "embed" THEN 0 ELSE nread
        IN  \E contents \in [1..nread -> EmbedTexts] :
            \E embeddings \in [1..nembedded -> ModelVecs] :
                LET documents ==
                        [i \in 1..nread |->
                            labeled(file_name(Corpus[matched[i]]), contents[i])]
                    \* documents.into_iter().zip(embeddings).collect()
                    output_data ==
                        [i \in 1..Min(nread, nembedded) |-> <<documents[i], embeddings[i]>>]
                    outcome == embed_outcome(fail, fault)
                IN  /\ store' = store_after_embed(store, fail, fault, output_data)
                    /\ last' = [cmd |-> "embed",
                                before |-> store,
                                matched |-> matched,
                                fail |-> fail,
                                fault |-> fault,
                                outcome |-> outcome,
                                documents |-> documents,
                                model_called |-> (fail.at = 0),
                                count |-> IF outcome = "ok" THEN Len(output_data) ELSE -1]
                    /\ UNCHANGED <<files_to_chunk, next_entry, chunk_state, doc,
                                   outdir, written>>

(***************************************************************************)
(* Command::Chunk                                                          *)
(***************************************************************************)
\* the locals of a loop turn, outside one
NoDoc == [content |-> <<>>, chunks |-> <<>>, line_counts |-> <<>>, headers |-> <<>>]

\* the documents a matched file can hold
Texts == SeqsUpTo({"a", NL}, MaxText)

\* splitter.chunks(&content): consecutive pieces of the text in order, each with
\* the whitespace at its ends trimmed (ChunkConfig::new trims), none empty.  Where
\* the token budget makes it cut is the tokenizer's business: cuts is any set of
\* positions, a piece ending at each.
RECURSIVE chunks_from(_, _, _)
chunks_from(content, cuts, from) ==
    IF from > Len(content) THEN <<>>
    ELSE LET later == {c \in cuts : c >= from}
             to == IF later = {} THEN Len(content)
                   ELSE CHOOSE c \in later : \A d \in later : c <= d
             chunk == Trim(SubSeq(content, from, to))
             rest == chunks_from(content, cuts, to + 1)
         IN  IF chunk = <<>> THEN rest ELSE <<chunk>> \o rest

chunks_of(content, cuts) == chunks_from(content, cuts, 1)

\* chunks.iter().scan(0, |acc, chunk| { start = acc + 1; acc += lines; (start, acc) })
RECURSIVE scan_lines(_, _)
scan_lines(chunks, acc) ==
    IF chunks = <<>> THEN <<>>
    ELSE LET lines == LinesCount(Head(chunks))
             start == acc + 1
         IN  <<<<start, acc + lines>>>> \o scan_lines(Tail(chunks), acc + lines)

\* faulty variant: the scan started at 1
line_counts_from_one(chunks) == scan_lines(chunks, 1)

line_counts_of(chunks) == scan_lines(chunks, 0)

Digits == <<"0", "1", "2", "3", "4", "5", "6", "7", "8", "9">>

\* the decimal digits format! writes for a usize
RECURSIVE Decimal(_)
Decimal(n) ==
    IF n < 10 THEN <<Digits[n + 1]>> ELSE Decimal(n \div 10) \o <<Digits[(n % 10) + 1]>>

\* output.join(format!("{}-{}.{}", base_name, i + 1, extension)) within the output
\* folder; ordinal is i + 1
chunk_file(p, ordinal) ==
    file_stem(p) \o <<"-">> \o Decimal(ordinal) \o <<".">> \o extension(p)

\* format!("From {}, lines {} - {}\n\n", base_name, start, end)
header(p, range) ==
    <<"From ">> \o file_stem(p) \o <<", lines ">> \o Decimal(range[1])
        \o <<" - ">> \o Decimal(range[2]) \o <<NL, NL>>

\* the output folder after fs::write of the first n chunks of entry e: a path
\* holds what was written to it last
RECURSIVE write_chunks(_, _, _)
write_chunks(dir, e, n) ==
    IF n = 0 THEN dir
    ELSE LET before == write_chunks(dir, e, n - 1)
             path == chunk_file(Corpus[e], n)
             file == [from |-> e, ordinal |-> n]
         IN  [q \in DOMAIN before \cup {path} |-> IF q = path THEN file ELSE before[q]]

\* create_dir_all, glob(&pattern)?, the tokenizer and the splitter
ChunkStart ==
    /\ chunk_state = "idle"
    /\ \E matched \in GlobResults, fault \in {"none", "setup"} :
        /\ files_to_chunk' = (IF fault = "none" THEN matched ELSE <<>>)
        /\ chunk_state' = (IF fault = "none" THEN "loop" ELSE "failed")
    /\ UNCHANGED <<store, last, next_entry, doc, outdir, written>>

\* one turn of `for entry in files_to_chunk`, down to line_counts
ChunkRead ==
    /\ chunk_state = "loop"
    /\ next_entry <= Len(files_to_chunk)
    /\ \E read \in {"ok", "GlobError", "IOError"} :
          IF read # "ok"
          THEN chunk_state' = "failed" /\ UNCHANGED doc
          ELSE \E content \in Texts :
               \E cuts \in SUBSET (1..(Len(content) - 1)) :
                   LET chunks == chunks_of(content, cuts)
                       line_counts == line_counts_of(chunks)
                   IN  /\ doc' = [content |-> content, chunks |-> chunks,
                                  line_counts |-> line_counts,
                                  headers |-> [i \in 1..Len(chunks) |->
                                      header(Corpus[files_to_chunk[next_entry]],
                                             line_counts[i])]]
                       /\ chunk_state' = "write"
    /\ UNCHANGED <<store, last, files_to_chunk, next_entry, outdir, written>>

\* the rest of the turn: fs::write(chunk_file, header + chunk)? for each chunk,
\* which stops the run at the first chunk it fails on; the turn's locals end with it
ChunkWrite ==
    /\ chunk_state = "write"
    /\ \E nwritten \in 0..Len(doc.chunks) :
          /\ outdir' = write_chunks(outdir, files_to_chunk[next_entry], nwritten)
          /\ written' = written \o
                 [i \in 1..nwritten |-> chunk_file(Corpus[files_to_chunk[next_entry]], i)]
          /\ IF nwritten < Len(doc.chunks)
             THEN chunk_state' = "failed" /\ UNCHANGED <<next_entry, doc>>
             ELSE chunk_state' = "loop" /\ next_entry' = next_entry + 1 /\ doc' = NoDoc
    /\ UNCHANGED <<store, last, files_to_chunk>>

\* the loop is over: "Successfully chunked documents"
ChunkDone ==
    /\ chunk_state = "loop"
    /\ next_entry > Len(files_to_chunk)
    /\ chunk_state' = "ok"
    /\ UNCHANGED <<store, last, files_to_chunk, next_entry, doc, outdir, written>>

(***************************************************************************)
(* Specifications                                                          *)
(***************************************************************************)
NoCmd == [cmd |-> "none"]

ChunkIdle ==
    /\ files_to_chunk = <<>>
    /\ next_entry = 1
    /\ chunk_state = "idle"
    /\ doc = NoDoc
    /\ outdir = <<>>
    /\ written = <<>>

\* embed and query invocations, one after another, on one destination that
\* does not exist at first
Init ==
    /\ store = NoFile
    /\ last = NoCmd
    /\ ChunkIdle

Next == Embed \/ QueryCmd

Spec == Init /\ [][Next]_vars

\* one query invocation on any input file
InitRank ==
    /\ store \in InputFiles
    /\ last = NoCmd
    /\ ChunkIdle

NextRank == QueryOnce

SpecRank == InitRank /\ [][NextRank]_vars

\* one chunk invocation into an empty output folder
NextChunk == ChunkStart \/ ChunkRead \/ ChunkWrite \/ ChunkDone

SpecChunk == Init /\ [][NextChunk]_vars

(***************************************************************************)
(* Properties                                                              *)
(***************************************************************************)
\* the query read its store and embedded its text: the ranking was run
Ranked == last.cmd = "query" /\ last.input.state = "json" /\ last.fault = "none"

\* the (score, doc) pairs the ranking of the last query started from
Scored == scored(last.query_embedding, last.input.recs)

CountIn(seq, x) == Cardinality({i \in 1..Len(seq) : seq[i] = x})
DocsOf(pairs) == [i \in 1..Len(pairs) |-> pairs[i][2]]
LabelsOf(recs) == [i \in 1..Len(recs) |-> recs[i][1]]

\* the docs, in order, of the pairs whose score equals s
TiedDocs(pairs, s) ==
    DocsOf(SelectSeq(pairs, LAMBDA p : partial_cmp(p[1], s) = "Equal"))

IsPrefix(s, t) == Len(s) <= Len(t) /\ SubSeq(t, 1, Len(s)) = s

\* C1: a query over a store of N records with top_k = k returns exactly min(k, N)
\* results, none for k = 0, and for k >= N every stored record exactly once (equal
\* labels counted separately).
C1_TopK ==
    Ranked =>
        /\ Len(last.top_results) = Min(last.top_k, Len(last.input.recs))
        /\ last.top_k >= Len(last.input.recs) =>
               \A d \in StoredDocs :
                   CountIn(DocsOf(last.top_results), d)
                       = CountIn(LabelsOf(last.input.recs), d)

\* C2: the results of a query are in descending order of score, and results of
\* equal score are in the order their records have in the store: the result
\* sequence is fixed by the query vector and the store.
C2_Order ==
    (last.cmd = "query" /\ last.outcome = "ok") =>
        /\ \A i, j \in 1..Len(last.top_results) :
               i < j => partial_cmp(last.top_results[i][1], last.top_results[j][1])
                            \in {"Greater", "Equal"}
        /\ \A i \in 1..Len(last.top_results) :
               IsPrefix(TiedDocs(last.top_results, last.top_results[i][1]),
                        TiedDocs(Scored, last.top_results[i][1]))

\* a query that printed three results, the first two tied with different labels,
\* from a store whose first record scores below its second
C2_Witness ==
    /\ last.cmd = "query" /\ last.outcome = "ok"
    /\ Len(last.top_results) = 3
    /\ partial_cmp(last.top_results[1][1], last.top_results[2][1]) = "Equal"
    /\ last.top_results[1][2] # last.top_results[2][2]
    /\ partial_cmp(last.top_results[2][1], last.top_results[3][1]) = "Greater"
    /\ partial_cmp(Scored[1][1], Scored[2][1]) = "Less"

\* C3: ranking fails with DimensionMismatch, and yields no results, whenever the
\* query vector's length differs from the length of some record's vector.
C3_DimensionMismatch ==
    (Ranked /\ \E i \in 1..Len(last.input.recs) :
                   Len(last.input.recs[i][2]) # Len(last.query_embedding)) =>
        last.outcome = "DimensionMismatch" /\ last.top_results = <<>>

ZeroNorm(v) == \A i \in 1..Len(v) : v[i] = 0

\* some score of the last query is NaN: the query vector or a record's vector
\* has zero norm
SomeNaN ==
    \/ ZeroNorm(last.query_embedding) /\ last.input.recs # <<>>
    \/ \E i \in 1..Len(last.input.recs) : ZeroNorm(last.input.recs[i][2])

\* C10: with at least two records and some NaN score the query aborts in the sort
\* comparator and prints nothing; with no NaN score a query over a readable store
\* completes and prints its min(top_k, N) results.
C10_NaN ==
    Ranked =>
        /\ (Len(last.input.recs) >= 2 /\ SomeNaN) =>
               last.outcome = "panic" /\ last.printed = <<>>
        /\ ~SomeNaN =>
               /\ last.outcome = "ok"
               /\ Len(last.printed) = Min(last.top_k, Len(last.input.recs))

\* a query with a non-zero query vector that aborted on a store of three records
\* whose last record alone has a zero vector
C10_Witness ==
    /\ Ranked /\ last.outcome = "panic"
    /\ ~ZeroNorm(last.query_embedding)
    /\ Len(last.input.recs) = 3
    /\ ZeroNorm(last.input.recs[3][2])
    /\ ~ZeroNorm(last.input.recs[1][2]) /\ ~ZeroNorm(last.input.recs[2][2])
    /\ last.top_k >= 1

\* C4: when a matched file cannot be read, the embed invocation ends in an error
\* with no partial result: the model is not called and the destination is neither
\* created nor changed.
C4_NoPartialEmbed ==
    (last.cmd = "embed" /\ last.fail.at > 0) =>
        /\ last.outcome \in {"GlobError", "IOError"}
        /\ ~last.model_called
        /\ last.count = -1
        /\ store = last.before

\* an embed that failed on its second file, over a store an earlier embed wrote
C4_Witness ==
    /\ last.cmd = "embed" /\ last.fail.at = 2 /\ last.fail.kind = "IOError"
    /\ store.state = "json" /\ Len(store.recs) = 2

\* C5: after a successful embed the store holds exactly that invocation's
\* records: one per matched file, in glob order, labelled by file name and
\* content, nothing of an earlier invocation, equal labels kept.
C5_Overwrite ==
    (last.cmd = "embed" /\ last.outcome = "ok") =>
        /\ store.state = "json"
        /\ Len(store.recs) = Len(last.matched)
        /\ last.count = Len(last.matched)
        /\ \A i \in 1..Len(last.matched) :
               store.recs[i][1] \in
                   {labeled(Corpus[last.matched[i]].name, c) : c \in EmbedTexts}

\* a successful embed of two files of equal name and content, over a store that
\* held other records
C5_Witness ==
    /\ last.cmd = "embed" /\ last.outcome = "ok"
    /\ Len(last.matched) = 2
    /\ store.recs[1][1] = store.recs[2][1]
    /\ last.before.state = "json" /\ Len(last.before.recs) = 2
    /\ last.before.recs[1][1] # store.recs[1][1]

\* C9: an embed whose glob matches nothing succeeds and writes a store of zero
\* records, reporting 0; a query on that store succeeds with an empty result for
\* any top_k.
C9_EmptyStore ==
    /\ (last.cmd = "embed" /\ last.matched = <<>> /\ last.fault = "none") =>
           last.outcome = "ok" /\ store = Json(<<>>) /\ last.count = 0
    /\ (last.cmd = "query" /\ last.input = Json(<<>>) /\ last.fault = "none") =>
           last.outcome = "ok" /\ last.top_results = <<>> /\ last.printed = <<>>

\* a query with top_k = 2 that succeeded on the empty store an embed wrote
C9_Witness ==
    /\ last.cmd = "query" /\ last.input = Json(<<>>) /\ store = Json(<<>>)
    /\ last.top_k = 2 /\ last.outcome = "ok"

\* C6: the line ranges of a document's chunks are sequential and gap-free: the
\* first starts at 1, each later one starts one past the previous end, each ends
\* at start + lines - 1; so ranges do not overlap and start <= end for a chunk of
\* at least one line.
C6_LineRanges ==
    LET lc == doc.line_counts
        n == Len(doc.chunks)
    IN  /\ Len(lc) = n
        /\ n >= 1 => lc[1][1] = 1
        /\ \A i \in 2..n : lc[i][1] = lc[i - 1][2] + 1
        /\ \A i \in 1..n : lc[i][2] = lc[i][1] + LinesCount(doc.chunks[i]) - 1
        /\ \A i \in 1..n : LinesCount(doc.chunks[i]) >= 1 => lc[i][1] <= lc[i][2]
        /\ \A i, j \in 1..n : i < j => lc[i][2] < lc[j][1]

\* a document split into two chunks, the second of two lines, the whitespace
\* between them dropped by the splitter
C6_Witness ==
    /\ chunk_state = "write"
    /\ Len(doc.chunks) = 2
    /\ LinesCount(doc.chunks[2]) = 2
    /\ Len(doc.chunks[1]) + Len(doc.chunks[2]) < Len(doc.content)

\* C7: when a document yields at least one chunk, the end line of its last chunk
\* is the number of lines of the document.
C7_LastLine ==
    doc.chunks # <<>> =>
        doc.line_counts[Len(doc.chunks)][2] = LinesCount(doc.content)

\* C8: within one chunk invocation no two chunks are written to the same path.
C8_OwnFile ==
    \A i, j \in 1..Len(written) : i < j => written[i] # written[j]

====
